---- MODULE Spec2Model ----
(***************************************************************************)
(* A model of the Wordle solver of wordle_solver.py: the class-level       *)
(* lists and dictionaries of WordleSolver, its filters, its scoring and    *)
(* its public operations.  Words, guesses and result keys are sequences of *)
(* one-character strings; Python's 0-based indices are kept and turned     *)
(* into TLA+ positions by At.                                              *)
(***************************************************************************)
EXTENDS Integers, Sequences, FiniteSets, TLC

\* range(0, 5) in __refine_working_list: the number of positions processed.
WordLength == 5

\* The weight of the word frequency in __get_word_score.
ScoreWeight == 2

\* The longest vocabulary (valid_words.csv) the model draws.
MaxVocab == 2

\* The guess counter is unbounded in the code; the model stops submitting
\* guesses at this value.
MaxGuessNumber == 6

\* The rounds (a guess and its result key) of a run of SpecRounds.
MaxRounds == 2

\* The greatest number of recommendations asked of __get_recommendation.
MaxRecCount == 2

\* The guesses each solver gets in a run of SpecTwo.
MaxGuessNumberTwo == 1

(***************************************************************************)
(* Inputs.                                                                 *)
(***************************************************************************)
angle == <<"a", "n", "g", "l", "e">>
eagle == <<"e", "a", "g", "l", "e">>
apple == <<"a", "p", "p", "l", "e">>
table == <<"t", "a", "b", "l", "e">>

\* The words a vocabulary is drawn from.
Words == {angle, eagle, apple, table}

Range(s) == {s[i] : i \in DOMAIN s}

\* Is s a sequence without repeated elements?
Distinct(s) == \A i, j \in DOMAIN s : i # j => s[i] # s[j]

\* The contents of valid_words.csv: the ordered vocabularies of up to
\* MaxVocab different words (the empty file included).
Vocabularies ==
    {v \in UNION {[1..n -> Words] : n \in 0..MaxVocab} : Distinct(v)}

\* The words submitted as guesses: vocabulary words, the empty word, a word
\* that is too short and one that is too long.
Guesses ==
    Words \cup {<< >>, <<"a", "n">>, <<"a", "n", "g", "l", "e", "s">>}

\* The symbols of a result key.
KeySymbols == {"-", "y", "g"}

\* The result keys of the right length.
WellFormedKeys == [1..WordLength -> KeySymbols]

\* Result keys that are too short, too long, or use another symbol.
OtherKeys ==
    { << >>,
      <<"-">>,
      <<"g", "y">>,
      <<"y", "g", "g", "g">>,
      <<"-", "-", "-", "-", "-", "-">>,
      <<"g", "g", "g", "g", "g", "y">>,
      <<"Y", "g", "g", "g", "g">>,
      <<"-", "y", "G", "g", "g">> }

\* Keys of the right length with a symbol that is none of '-', 'y', 'g'.
TypoKeys ==
    { <<"G", "-", "-", "g", "g">>,
      <<"-", "G", "-", "g", "g">>,
      <<"y", "y", "?", "g", "g">> }

ResultKeys == WellFormedKeys \cup OtherKeys \cup TypoKeys

\* The key the game answers to guess when the word to find is secret: the
\* letters in their place are green; a letter elsewhere in the word is yellow,
\* from the left, as often as the word has it outside the green places; every
\* other letter is gray.
TrueFeedback(secret, guess) ==
    LET Free(letter) ==
            Cardinality({j \in 1..WordLength :
                            secret[j] = letter /\ guess[j] # letter})
        Before(i) ==
            Cardinality({j \in 1..(i - 1) :
                            guess[j] = guess[i] /\ secret[j] # guess[j]})
    IN [i \in 1..WordLength |->
            IF guess[i] = secret[i] THEN "g"
            ELSE IF Before(i) < Free(guess[i]) THEN "y"
            ELSE "-"]

\* The keys of one symbol.
UniformKeys == {[i \in 1..WordLength |-> symbol] : symbol \in KeySymbols}

\* The keys the arbitrary call sequences draw from: the game's answers for
\* the words of the model, the keys of one symbol, and the malformed keys.
SomeKeys ==
    {TrueFeedback(secret, guess) : secret \in Words, guess \in Words}
        \cup UniformKeys \cup OtherKeys

\* wordfreq.zipf_frequency(word, "en"), an external oracle, as an integer.
ZipfFrequency(word) ==
    CASE word = table -> 5
      [] word = apple -> 5
      [] word = angle -> 4
      [] word = eagle -> 4
      [] OTHER -> 0

(***************************************************************************)
(* Python strings, lists, Counter and dict.                                *)
(***************************************************************************)
\* word[index], index counted from 0.
At(word, index) == word[index + 1]

\* letter in word
Contains(word, letter) == \E i \in DOMAIN word : word[i] = letter

\* How often letter occurs in word.
Occurrences(word, letter) == Cardinality({i \in DOMAIN word : word[i] = letter})

\* How often letter occurs in the words of the list wl together.
RECURSIVE TotalOccurrences(_, _)
TotalOccurrences(wl, letter) ==
    IF wl = << >> THEN 0
    ELSE Occurrences(Head(wl), letter) + TotalOccurrences(Tail(wl), letter)

\* The sum of f[x] over the x of S.
RECURSIVE SumOver(_, _)
SumOver(f, S) ==
    IF S = {} THEN 0
    ELSE LET x == CHOOSE y \in S : TRUE IN f[x] + SumOver(f, S \ {x})

\* Counter lookup: a missing key counts 0.
CounterGet(counter, letter) ==
    IF letter \in DOMAIN counter THEN counter[letter] ELSE 0

\* An empty dict / Counter.
EmptyCounter == [l \in {} |-> 0]

\* The keys of a dict kept as a sequence of entries in insertion order.
Keys(dict) == {dict[i].word : i \in DOMAIN dict}

\* dict[word] = score: a known key keeps its place, a new key goes last.
DictSet(dict, word, score) ==
    IF word \in Keys(dict)
    THEN [i \in DOMAIN dict |->
            IF dict[i].word = word THEN [word |-> word, score |-> score]
            ELSE dict[i]]
    ELSE Append(dict, [word |-> word, score |-> score])

(***************************************************************************)
(* Scoring.                                                                *)
(***************************************************************************)
\* __get_letter_usage counting each word once per letter, as
\* Counter(chain.from_iterable(set(word) for word in working_list)) would.
GetLetterUsageOncePerWord(wl) ==
    [l \in UNION {Range(wl[i]) : i \in DOMAIN wl} |->
        Cardinality({i \in DOMAIN wl : Contains(wl[i], l)})]

\* __get_letter_usage: Counter(chain.from_iterable(working_list)) counts
\* every letter of every word of the working list.
GetLetterUsage(wl) ==
    [l \in UNION {Range(wl[i]) : i \in DOMAIN wl} |->
        TotalOccurrences(wl, l)]

\* __get_word_score looping over the word instead of set(word): a repeated
\* letter is added once per occurrence.
GetWordScoreAllLetters(lc, word) ==
    SumOver([i \in DOMAIN word |-> CounterGet(lc, word[i])], DOMAIN word)
        + ZipfFrequency(word) * ScoreWeight

\* __get_word_score: the counts of the distinct letters of the word, plus
\* twice the word's frequency.
GetWordScore(lc, word) ==
    SumOver([l \in Range(word) |-> CounterGet(lc, l)], Range(word))
        + ZipfFrequency(word) * ScoreWeight

\* The loop of __score_words over the working list, filling the dict.
RECURSIVE ScoreLoop(_, _, _)
ScoreLoop(dict, lc, wl) ==
    IF wl = << >> THEN dict
    ELSE ScoreLoop(DictSet(dict, Head(wl), GetWordScore(lc, Head(wl))), lc, Tail(wl))

\* __score_words: both tables are cleared and recomputed from the working
\* list.
ScoreWords(wl) ==
    [letter_count |-> GetLetterUsage(wl),
     scored_words |-> ScoreLoop(<< >>, GetLetterUsage(wl), wl)]

(***************************************************************************)
(* Filters.                                                                *)
(***************************************************************************)
\* __gray_letter with the clear() of line 112 left out: the filtered words
\* are appended to the list.
GrayLetterNoClear(wl, letter) ==
    wl \o SelectSeq(wl, LAMBDA word : ~Contains(word, letter))

\* __gray_letter removing from the list it iterates over: the word after a
\* removed word is skipped.
RECURSIVE GrayLetterRemoveInLoop(_, _)
GrayLetterRemoveInLoop(wl, letter) ==
    IF wl = << >> THEN << >>
    ELSE IF ~Contains(Head(wl), letter)
         THEN <<Head(wl)>> \o GrayLetterRemoveInLoop(Tail(wl), letter)
         ELSE IF Len(wl) = 1 THEN << >>
              ELSE <<wl[2]>> \o GrayLetterRemoveInLoop(Tail(Tail(wl)), letter)

\* __gray_letter: the words without the letter.
GrayLetter(wl, letter) ==
    SelectSeq(wl, LAMBDA word : ~Contains(word, letter))

\* __green_letter testing "letter in word" instead of the location.
GreenLetterAnywhere(wl, letter, location) ==
    SelectSeq(wl, LAMBDA word : Contains(word, letter))

\* __green_letter: the words with the letter at the location.
GreenLetter(wl, letter, location) ==
    SelectSeq(wl, LAMBDA word : At(word, location) = letter)

\* __yellow_letter without the test of line 147.
YellowLetterNoContains(wl, letter, location) ==
    SelectSeq(wl, LAMBDA word : At(word, location) # letter)

\* __yellow_letter: the words with the letter, but not at the location.
YellowLetter(wl, letter, location) ==
    SelectSeq(wl, LAMBDA word : At(word, location) # letter /\ Contains(word, letter))

\* One pass of a loop that filters on '-', 'y' and 'g' only and skips every
\* other symbol.
RefineStepStrict(wl, guess, result_key, index) ==
    IF At(result_key, index) = "-" THEN GrayLetter(wl, At(guess, index))
    ELSE IF At(result_key, index) = "y" THEN YellowLetter(wl, At(guess, index), index)
    ELSE IF At(result_key, index) = "g" THEN GreenLetter(wl, At(guess, index), index)
    ELSE wl

\* One pass of the loop of __refine_working_list.
RefineStep(wl, guess, result_key, index) ==
    IF At(result_key, index) = "-" THEN GrayLetter(wl, At(guess, index))
    ELSE IF At(result_key, index) = "y" THEN YellowLetter(wl, At(guess, index), index)
    ELSE GreenLetter(wl, At(guess, index), index)

\* The loop of __refine_working_list from index on: result_key[index] and
\* guess[index] raise IndexError past the end of the string, and the loop
\* stops there with the filters of the earlier positions applied.
RECURSIVE RefineLoop(_, _, _, _)
RefineLoop(wl, guess, result_key, index) ==
    IF index = WordLength THEN [working_list |-> wl, raised |-> "none"]
    ELSE IF index >= Len(result_key) \/ index >= Len(guess)
         THEN [working_list |-> wl, raised |-> "IndexError"]
         ELSE RefineLoop(RefineStep(wl, guess, result_key, index),
                         guess, result_key, index + 1)

\* max(scored_words.items(), key=itemgetter(1))[0] from entry i on: a later
\* entry wins only with a strictly greater score.
RECURSIVE MaxEntry(_, _, _)
MaxEntry(dict, best, i) ==
    IF i > Len(dict) THEN best
    ELSE MaxEntry(dict, IF dict[i].score > best.score THEN dict[i] ELSE best, i + 1)

\* The value of the recommendation property for a non-empty dict.
RecommendationOf(dict) == MaxEntry(dict, dict[1], 2).word

\* sorted(..., key=score, reverse=True) adding one entry to a sorted list: the
\* sort is stable, so the entry goes after the entries of the same score.
InsertSorted(sorted, entry) ==
    LET ahead == Cardinality({i \in DOMAIN sorted : sorted[i].score >= entry.score})
    IN SubSeq(sorted, 1, ahead) \o <<entry>> \o SubSeq(sorted, ahead + 1, Len(sorted))

\* sorted(scored_words.items(), key=lambda item: item[1], reverse=True)
RECURSIVE SortedByScore(_)
SortedByScore(dict) ==
    IF dict = << >> THEN << >>
    ELSE InsertSorted(SortedByScore(SubSeq(dict, 1, Len(dict) - 1)), dict[Len(dict)])

\* __get_recommendation for rec_count >= 0: the first rec_count entries of
\* the sorted items, as a dict.
GetRecommendationOf(dict, rec_count) ==
    SubSeq(SortedByScore(dict), 1,
           IF rec_count < Len(dict) THEN rec_count ELSE Len(dict))

(***************************************************************************)
(* State.                                                                  *)
(***************************************************************************)
\* The two solver objects of the model.
Instances == {"A", "B"}

VARIABLES
    valid_words_csv,  \* the lines of valid_words.csv
    valid_words,      \* WordleSolver.__valid_words, a class attribute
    working_list,     \* WordleSolver.__working_list, a class attribute
    scored_words,     \* WordleSolver.__scored_words, a class attribute
    letter_count,     \* __letter_count as each object sees it
    current_guess,    \* __current_guess as each object sees it
    guess_number,     \* __guess_number as each object sees it
    constructed,      \* the objects constructed so far
    caller,           \* the object of the last call
    last_call,        \* the operation called last
    last_arg,         \* its argument
    raised,           \* the exception it ended with, or "none"
    returned,         \* the value it returned, or "None"
    pc,               \* where the game loop of __main__ stands
    game_result_key,  \* the variable result_key of __main__
    results_entered   \* how many times __main__ has called enter_result

vars ==
    <<valid_words_csv, valid_words, working_list, scored_words, letter_count,
      current_guess, guess_number, constructed, caller, last_call, last_arg,
      raised, returned, pc, game_result_key,
      results_entered>>

\* The variables of __main__.
game_state == <<pc, game_result_key, results_entered>>

\* The class attributes and the object's own attributes.
class_state == <<valid_words_csv, valid_words, working_list, scored_words>>

\* __init__ and __prepare_game: the file is appended to the class's list of
\* valid words, the working list is cleared and refilled from it, and the
\* words are scored.  The object gets its own letter count (line 90).
Construct(self) ==
    /\ self \notin constructed
    /\ LET vw == valid_words \o valid_words_csv
       IN /\ valid_words' = vw
          /\ working_list' = vw
          /\ scored_words' = ScoreWords(vw).scored_words
          /\ letter_count' = [letter_count EXCEPT ![self] = ScoreWords(vw).letter_count]
    /\ constructed' = constructed \cup {self}
    /\ caller' = self
    /\ last_call' = "__init__"
    /\ last_arg' = << >>
    /\ raised' = "none"
    /\ returned' = "None"
    /\ UNCHANGED <<valid_words_csv, current_guess, guess_number>>

\* enter_guess counting only the guesses of the right length.
EnterGuessCountsValid(self, word) ==
    /\ self \in constructed
    /\ current_guess' = [current_guess EXCEPT ![self] = word]
    /\ guess_number' =
          [guess_number EXCEPT
              ![self] = IF Len(word) = WordLength THEN @ + 1 ELSE @]
    /\ caller' = self
    /\ last_call' = "enter_guess"
    /\ last_arg' = word
    /\ raised' = "none"
    /\ returned' = "None"
    /\ UNCHANGED <<class_state, letter_count, constructed>>

\* enter_guess starting a new game: it runs __prepare_game as well.
EnterGuessPrepares(self, word) ==
    /\ self \in constructed
    /\ current_guess' = [current_guess EXCEPT ![self] = word]
    /\ guess_number' = [guess_number EXCEPT ![self] = @ + 1]
    /\ working_list' = valid_words
    /\ scored_words' = ScoreWords(valid_words).scored_words
    /\ letter_count' =
          [letter_count EXCEPT ![self] = ScoreWords(valid_words).letter_count]
    /\ caller' = self
    /\ last_call' = "enter_guess"
    /\ last_arg' = word
    /\ raised' = "none"
    /\ returned' = "None"
    /\ UNCHANGED <<valid_words_csv, valid_words, constructed>>

\* enter_guess
EnterGuess(self, word) ==
    /\ self \in constructed
    /\ current_guess' = [current_guess EXCEPT ![self] = word]
    /\ guess_number' = [guess_number EXCEPT ![self] = @ + 1]
    /\ caller' = self
    /\ last_call' = "enter_guess"
    /\ last_arg' = word
    /\ raised' = "none"
    /\ returned' = "None"
    /\ UNCHANGED <<class_state, letter_count, constructed>>

\* enter_result: __refine_working_list on the current guess; the words are
\* scored again only when the loop ended without an exception.
EnterResult(self, result_key) ==
    /\ self \in constructed
    /\ LET r == RefineLoop(working_list, current_guess[self], result_key, 0)
       IN /\ working_list' = r.working_list
          /\ raised' = r.raised
          /\ IF r.raised = "none"
             THEN /\ scored_words' = ScoreWords(r.working_list).scored_words
                  /\ letter_count' =
                        [letter_count EXCEPT
                            ![self] = ScoreWords(r.working_list).letter_count]
             ELSE UNCHANGED <<scored_words, letter_count>>
    /\ caller' = self
    /\ last_call' = "enter_result"
    /\ last_arg' = result_key
    /\ returned' = "None"
    /\ UNCHANGED <<valid_words_csv, valid_words, current_guess, guess_number,
                   constructed>>

\* recommendation: max() of an empty dict raises ValueError.
Recommendation(self) ==
    /\ self \in constructed
    /\ caller' = self
    /\ last_call' = "recommendation"
    /\ last_arg' = << >>
    /\ IF scored_words = << >>
       THEN raised' = "ValueError" /\ returned' = "None"
       ELSE raised' = "none" /\ returned' = RecommendationOf(scored_words)
    /\ UNCHANGED <<class_state, letter_count, current_guess, guess_number,
                   constructed>>

\* __get_recommendation
GetRecommendation(self, rec_count) ==
    /\ self \in constructed
    /\ caller' = self
    /\ last_call' = "__get_recommendation"
    /\ last_arg' = rec_count
    /\ raised' = "none"
    /\ returned' = GetRecommendationOf(scored_words, rec_count)
    /\ UNCHANGED <<class_state, letter_count, current_guess, guess_number,
                   constructed>>

\* guess_number
GuessNumber(self) ==
    /\ self \in constructed
    /\ caller' = self
    /\ last_call' = "guess_number"
    /\ last_arg' = << >>
    /\ raised' = "none"
    /\ returned' = guess_number[self]
    /\ UNCHANGED <<class_state, letter_count, current_guess, guess_number,
                   constructed>>

\* remaining_possible_words
RemainingPossibleWords(self) ==
    /\ self \in constructed
    /\ caller' = self
    /\ last_call' = "remaining_possible_words"
    /\ last_arg' = << >>
    /\ raised' = "none"
    /\ returned' = Len(working_list)
    /\ UNCHANGED <<class_state, letter_count, current_guess, guess_number,
                   constructed>>

\* One solver, "A", constructed over some vocabulary.
Init ==
    \E csv \in Vocabularies :
        /\ valid_words_csv = csv
        /\ valid_words = csv
        /\ working_list = csv
        /\ scored_words = ScoreWords(csv).scored_words
        /\ letter_count =
              [i \in Instances |->
                  IF i = "A" THEN ScoreWords(csv).letter_count ELSE EmptyCounter]
        /\ current_guess = [i \in Instances |-> << >>]
        /\ guess_number = [i \in Instances |-> 0]
        /\ constructed = {"A"}
        /\ caller = "A"
        /\ last_call = "__init__"
        /\ last_arg = << >>
        /\ raised = "none"
        /\ returned = "None"
        /\ pc = "start"
        /\ game_result_key = << >>
        /\ results_entered = 0

\* The calls one object receives, in any order: guesses from G (up to cap of
\* them) and result keys from K.
Calls(self, G, K, cap) ==
    \/ \E word \in G :
          /\ guess_number[self] < cap
          /\ EnterGuess(self, word)
          /\ UNCHANGED game_state
    \/ \E key \in K : EnterResult(self, key) /\ UNCHANGED game_state
    \/ Recommendation(self) /\ UNCHANGED game_state
    \/ \E rec_count \in 0..MaxRecCount :
          GetRecommendation(self, rec_count) /\ UNCHANGED game_state
    \/ GuessNumber(self) /\ UNCHANGED game_state
    \/ RemainingPossibleWords(self) /\ UNCHANGED game_state

\* One solver called in any order, with the result keys of SomeKeys.
Next == Calls("A", Guesses, SomeKeys, MaxGuessNumber)

Spec == Init /\ [][Next]_vars

\* One solver called in rounds, as the game loop calls it (lines 245-247): a
\* guess, then its result key, any key of ResultKeys; the same key may be
\* entered once more.
NextRounds ==
    \/ \E word \in Guesses :
          /\ last_call # "enter_guess"
          /\ guess_number["A"] < MaxRounds
          /\ EnterGuess("A", word)
          /\ UNCHANGED game_state
    \/ \E key \in ResultKeys :
          /\ last_call = "enter_guess"
          /\ EnterResult("A", key)
          /\ UNCHANGED game_state
    \/ /\ last_call = "enter_result"
       /\ EnterResult("A", last_arg)
       /\ UNCHANGED game_state

SpecRounds == Init /\ [][NextRounds]_vars

\* One solver that gets one guess and then one result key, any key of
\* ResultKeys: every input of the filter loop, on every vocabulary.
NextOnce ==
    \/ \E word \in Guesses :
          /\ last_call = "__init__"
          /\ EnterGuess("A", word)
          /\ UNCHANGED game_state
    \/ \E key \in ResultKeys :
          /\ last_call = "enter_guess"
          /\ EnterResult("A", key)
          /\ UNCHANGED game_state

SpecOnce == Init /\ [][NextOnce]_vars

\* The guesses and result keys of the runs with two solvers.
GuessesTwo == {apple, eagle}
KeysTwo ==
    { <<"g", "-", "-", "g", "g">>,
      <<"-", "y", "-", "g", "g">>,
      <<"g", "g", "g", "g", "g">> }

\* Two solvers in one process: "B" is constructed at some point, and both
\* are called in any order.
NextTwo ==
    \/ Construct("B") /\ UNCHANGED game_state
    \/ Calls("A", GuessesTwo, KeysTwo, MaxGuessNumberTwo)
    \/ Calls("B", GuessesTwo, KeysTwo, MaxGuessNumberTwo)

SpecTwo == Init /\ [][NextTwo]_vars

(***************************************************************************)
(* The game of __main__.                                                   *)
(***************************************************************************)
\* The number of guesses of a game, the 6 of line 243.
MaxGuesses == 6

\* A loop that goes on while either of the two conditions holds.
GameContinuesEither(self) ==
    \/ guess_number[self] < MaxGuesses
    \/ game_result_key # <<"g", "g", "g", "g", "g">>

\* The test of the while loop.
GameContinues(self) ==
    /\ guess_number[self] < MaxGuesses
    /\ game_result_key # <<"g", "g", "g", "g", "g">>

\* The print before the loop: it asks for the recommendation, and the
\* program ends there when that raises.
GameStart ==
    /\ pc = "start"
    /\ Recommendation("A")
    /\ pc' = IF scored_words = << >> THEN "crashed" ELSE "loop"
    /\ UNCHANGED <<game_result_key, results_entered>>

\* The loop goes on: the user types a guess, or nothing to play the
\* recommendation, and the guess is entered.
GameGuess ==
    /\ pc = "loop"
    /\ GameContinues("A")
    /\ \E typed \in Guesses :
          IF typed = << >> /\ scored_words = << >>
          THEN /\ Recommendation("A")
               /\ pc' = "crashed"
          ELSE /\ EnterGuess("A", IF typed = << >>
                                     THEN RecommendationOf(scored_words)
                                     ELSE typed)
               /\ pc' = "result"
    /\ UNCHANGED <<game_result_key, results_entered>>

\* The loop ends.
GameOver ==
    /\ pc = "loop"
    /\ ~GameContinues("A")
    /\ pc' = "done"
    /\ UNCHANGED <<class_state, letter_count, current_guess, guess_number,
                   constructed, caller, last_call, last_arg, raised, returned,
                   game_result_key, results_entered>>

\* The user types the result key and it is entered; the program ends when
\* enter_result raises.
GameResult ==
    /\ pc = "result"
    /\ \E key \in SomeKeys :
          /\ EnterResult("A", key)
          /\ game_result_key' = key
    /\ results_entered' = results_entered + 1
    /\ pc' = IF raised' = "none" THEN "print" ELSE "crashed"

\* The print that ends a round: it asks for the recommendation, and the
\* program ends there when that raises.
GamePrint ==
    /\ pc = "print"
    /\ Recommendation("A")
    /\ pc' = IF scored_words = << >> THEN "crashed" ELSE "loop"
    /\ UNCHANGED <<game_result_key, results_entered>>

NextGame ==
    \/ GameStart
    \/ GameGuess
    \/ GameOver
    \/ GameResult
    \/ GamePrint

\* The game of one solver; the program goes on as long as it can, the user
\* answering every prompt.
SpecGame == Init /\ [][NextGame]_vars /\ WF_vars(NextGame)

(***************************************************************************)
(* jumble_solver.                                                          *)
(***************************************************************************)
\* The longest jumble of the model.
MaxJumbleLen == 3

\* The letters of the jumbles, in both cases.
JumbleLetters == {"a", "c", "t", "A", "C", "T"}

\* The jumbles given to jumble_solver.
Jumbles ==
    UNION {[1..n -> JumbleLetters] : n \in 0..MaxJumbleLen}

\* The words of the dictionary of SpellChecker, an external oracle: its
\* words are in lower case.
Dictionary ==
    { <<"a">>, <<"a", "t">>, <<"a", "c", "t">>, <<"c", "a", "t">>,
      <<"t", "a", "t">>, <<"t", "a", "c", "t">> }

\* str.lower() of one letter and of a string.
LowerLetter(letter) ==
    CASE letter = "A" -> "a"
      [] letter = "C" -> "c"
      [] letter = "T" -> "t"
      [] OTHER -> letter

Lower(word) == [i \in 1..Len(word) |-> LowerLetter(word[i])]

\* The strings made of the characters of scrambled taken with repetition.
AllPermutationsWithRepeats(scrambled) ==
    {[i \in 1..Len(scrambled) |-> scrambled[f[i]]] :
        f \in [1..Len(scrambled) -> 1..Len(scrambled)]}

\* map(''.join, permutations(scrambled)): the characters of scrambled in
\* every order of their positions.
AllPermutations(scrambled) ==
    {[i \in 1..Len(scrambled) |-> scrambled[f[i]]] :
        f \in {g \in [1..Len(scrambled) -> 1..Len(scrambled)] :
                  \A i, j \in 1..Len(scrambled) : g[i] = g[j] => i = j}}

\* SpellChecker().known(words): the words, put in lower case, that are in
\* the dictionary.
Known(words) == {Lower(word) : word \in words} \cap Dictionary

\* jumble_solver(scrambled): answer.pop() returns some element of the set,
\* and raises KeyError when the set is empty.
JumbleSolver ==
    /\ last_call = "input"
    /\ LET answer == Known(AllPermutations(last_arg))
       IN IF answer = {}
          THEN raised' = "KeyError" /\ returned' = "None"
          ELSE raised' = "none" /\ \E word \in answer : returned' = word
    /\ last_call' = "jumble_solver"
    /\ UNCHANGED <<class_state, letter_count, current_guess, guess_number,
                   constructed, caller, last_arg, game_state>>

\* A jumble has been typed and no solver of the other game exists.
InitJumble ==
    /\ valid_words_csv = << >>
    /\ valid_words = << >>
    /\ working_list = << >>
    /\ scored_words = << >>
    /\ letter_count = [i \in Instances |-> EmptyCounter]
    /\ current_guess = [i \in Instances |-> << >>]
    /\ guess_number = [i \in Instances |-> 0]
    /\ constructed = {}
    /\ caller = "__main__"
    /\ last_call = "input"
    /\ last_arg \in Jumbles
    /\ raised = "none"
    /\ returned = "None"
    /\ pc = "start"
    /\ game_result_key = << >>
    /\ results_entered = 0

NextJumble == JumbleSolver

SpecJumble == InitJumble /\ [][NextJumble]_vars

(***************************************************************************)
(* Properties.                                                             *)
(***************************************************************************)
\* The solver the properties of one object are about.
A == "A"

\* Does word pass the result key of guess at every position?
Consistent(word, guess, result_key) ==
    \A index \in 0..(WordLength - 1) :
        /\ At(result_key, index) = "-" => ~Contains(word, At(guess, index))
        /\ At(result_key, index) = "g" => At(word, index) = At(guess, index)
        /\ At(result_key, index) = "y" =>
              /\ At(word, index) # At(guess, index)
              /\ Contains(word, At(guess, index))

\* C1: for a guess of length 5 and a result key of length 5 over '-', 'y',
\* 'g', enter_result leaves in the working list exactly the words that were
\* in it and pass the key at every position: no gray letter anywhere, every
\* green letter in its place, every yellow letter elsewhere in the word.
C1_ExactFilter ==
    [][(/\ last_call' = "enter_result"
        /\ last_arg' \in WellFormedKeys
        /\ Len(current_guess[A]) = WordLength)
       => /\ raised' = "none"
          /\ working_list' =
                SelectSeq(working_list,
                          LAMBDA word : Consistent(word, current_guess[A], last_arg'))]_vars

\* C1 witness: a key with all three symbols was entered for a guess of length
\* 5, and it removed some words and kept others.
C1_Witness ==
    /\ last_call = "enter_result"
    /\ last_arg \in WellFormedKeys
    /\ KeySymbols \subseteq Range(last_arg)
    /\ Len(current_guess[A]) = WordLength
    /\ working_list # << >>
    /\ Len(working_list) < Len(valid_words)

\* C2: a vocabulary word is never filtered out by the game's true result key
\* for it: when enter_result gets the key the game answers to the current
\* guess for the secret word s, and s is in the working list, s stays in it.
C2_SecretKept ==
    [][\A s \in Range(valid_words) :
          (/\ last_call' = "enter_result"
           /\ Len(current_guess[A]) = WordLength
           /\ last_arg' = TrueFeedback(s, current_guess[A])
           /\ s \in Range(working_list))
          => s \in Range(working_list')]_vars

\* C3: the working list holds only valid words, and no call makes it grow or
\* puts into it a word it did not hold.
C3_NeverRegrows ==
    /\ Range(working_list) \subseteq Range(valid_words)
    /\ [][/\ Range(working_list') \subseteq Range(valid_words')
          /\ Range(working_list') \subseteq Range(working_list)
          /\ Len(working_list') <= Len(working_list)]_vars

\* C3 witness: a result key that is too short ended in an exception after
\* its first symbols removed some words and kept others.
C3_Witness ==
    /\ last_call = "enter_result"
    /\ raised = "IndexError"
    /\ working_list # << >>
    /\ Len(working_list) < Len(valid_words)

\* C4: between calls, the words that are keys of the score table are exactly
\* the words of the working list.
C4_ScoreKeysAreCandidates == Keys(scored_words) = Range(working_list)

\* C5: a word returned by the recommendation query is in the working list.
C5_RecommendationIsCandidate ==
    (last_call = "recommendation" /\ raised = "none")
        => returned \in Range(working_list)

\* C6: an enter_result call with a result key of another length than 5 ends
\* in an error and does not filter the working list.
C6_KeyLengthRejected ==
    [][(last_call' = "enter_result" /\ Len(last_arg') # WordLength)
       => (raised' # "none" /\ working_list' = working_list)]_vars

\* C7: an enter_result call that removes the last words of the working list
\* ends in an error.
C7_EmptyIsReported ==
    [][(/\ last_call' = "enter_result"
        /\ working_list # << >>
        /\ working_list' = << >>)
       => raised' # "none"]_vars

\* C8: constructing solver B, and every call on B, leaves what solver A
\* works on unchanged: its valid words, working list and score table.
C8_NoSharedState ==
    [][caller' = "B" => UNCHANGED <<valid_words, working_list, scored_words>>]_vars

\* C9: the guess counter is 0 after construction; enter_guess adds exactly 1
\* to it, whatever the word, and every other call leaves it alone; the
\* guess_number query reports it; and only enter_result with a result key
\* or guess shorter than 5, or recommendation, ever raises, so that rounds of
\* well-formed guesses and keys raise nothing.
C9_GuessCounter ==
    /\ guess_number[A] = 0
    /\ [][/\ IF last_call' = "enter_guess"
             THEN guess_number'[A] = guess_number[A] + 1
             ELSE guess_number'[A] = guess_number[A]
          /\ last_call' = "guess_number" => returned' = guess_number[A]
          /\ raised' # "none" =>
                \/ /\ last_call' = "enter_result"
                   /\ \/ Len(last_arg') < WordLength
                      \/ Len(current_guess[A]) < WordLength
                \/ last_call' = "recommendation"]_vars

\* C9 witness: the guess_number query reports 6, the sixth guess being no
\* valid word.
C9_Witness ==
    /\ last_call = "guess_number"
    /\ returned = 6
    /\ current_guess[A] \notin Range(valid_words)

\* C10: right after enter_result with a key of length 5, entering the same
\* key again changes neither the working list nor the score table.
C10_Idempotent ==
    (last_call = "enter_result" /\ Len(last_arg) = WordLength) =>
        LET again == RefineLoop(working_list, current_guess[A], last_arg, 0)
        IN /\ again.working_list = working_list
           /\ again.raised = "none" =>
                 ScoreWords(again.working_list).scored_words = scored_words

\* C10 witness: a key of length 5 with a gray and a yellow letter was
\* entered without error, and it removed some words and kept others.
C10_Witness ==
    /\ last_call = "enter_result"
    /\ raised = "none"
    /\ Len(last_arg) = WordLength
    /\ {"-", "y"} \subseteq Range(last_arg)
    /\ working_list # << >>
    /\ Len(working_list) < Len(valid_words)

\* The key of five green letters.
AllGreen == [i \in 1..WordLength |-> "g"]

\* C11: when the current guess is a word of the working list and the result
\* key is green at all five positions, enter_result leaves the guess in the
\* working list and no word that differs from the guess at some position.
C11_AllGreenKeepsGuess ==
    [][(/\ last_call' = "enter_result"
        /\ last_arg' = AllGreen
        /\ current_guess[A] \in Range(working_list))
       => /\ current_guess[A] \in Range(working_list')
          /\ \A word \in Range(working_list') :
                \A index \in 0..(WordLength - 1) :
                    At(word, index) = At(current_guess[A], index)]_vars

\* C11 witness: five green letters were entered for a guess with a repeated
\* letter, and the guess is all that is left of a longer working list.
C11_Witness ==
    /\ last_call = "enter_result"
    /\ last_arg = AllGreen
    /\ Len(current_guess[A]) = WordLength
    /\ \E i, j \in 1..WordLength : i # j /\ current_guess[A][i] = current_guess[A][j]
    /\ working_list = <<current_guess[A]>>
    /\ Len(valid_words) > 1

\* The scores of a score table, and the words that have its greatest score.
Scores(dict) == {dict[i].score : i \in DOMAIN dict}
BestWords(dict) ==
    {dict[i].word : i \in {j \in DOMAIN dict : \A s \in Scores(dict) : dict[j].score >= s}}

\* C12: with a non-empty working list the recommendation query returns a
\* word of greatest score in the score table, and of the words of greatest
\* score the one that comes first in the working list.
C12_FirstMaximum ==
    (last_call = "recommendation" /\ working_list # << >>) =>
        /\ raised = "none"
        /\ returned \in BestWords(scored_words)
        /\ \E i \in DOMAIN working_list :
              /\ working_list[i] = returned
              /\ \A j \in 1..(i - 1) : working_list[j] \notin BestWords(scored_words)

\* The letters of the words of the model.
Letters == UNION {Range(word) : word \in Words}

\* The words of a score table, in its order.
ScoredList(dict) == [i \in DOMAIN dict |-> dict[i].word]

\* The places (word, position) of the list wl that hold the letter.
PlacesOf(wl, letter) ==
    {p \in (DOMAIN wl) \X (1..WordLength) : wl[p[1]][p[2]] = letter}

\* Were the tables computed by the last call (construction, or an
\* enter_result that returned normally)?
JustScored == last_call \in {"__init__", "enter_result"} /\ raised = "none"

\* C13 as stated: after construction and after every enter_result the letter
\* count of a letter is the number of words of the working list that contain
\* the letter.
C13_WordsContaining ==
    last_call \in {"__init__", "enter_result"} =>
        \A letter \in Letters :
            CounterGet(letter_count[A], letter) =
                Cardinality({i \in DOMAIN working_list :
                                Contains(working_list[i], letter)})

\* C13 as amended: the letter count of a letter is the number of its
\* occurrences in the words the tables were last computed from, a word with
\* the letter twice adding 2; these words are the working list after
\* construction and after every enter_result that returned normally.
C13_OccurrencesCounted ==
    /\ \A letter \in Letters :
          CounterGet(letter_count[A], letter) =
              Cardinality(PlacesOf(ScoredList(scored_words), letter))
    /\ DOMAIN letter_count[A] =
          UNION {Range(ScoredList(scored_words)[i]) : i \in DOMAIN scored_words}
    /\ JustScored => ScoredList(scored_words) = working_list

\* C13 witness: an enter_result that returned normally removed some words and
\* kept a word that has a letter twice, and the count of that letter is
\* greater than the number of words left.
C13_Witness ==
    /\ last_call = "enter_result"
    /\ raised = "none"
    /\ Len(working_list) < Len(valid_words)
    /\ \E letter \in Letters :
          CounterGet(letter_count[A], letter) > Len(working_list)

\* C14: __get_recommendation(K), K >= 0, returns min(K, size of the working
\* list) entries of the score table in non-increasing score order, no word
\* left out scoring more than a returned one, and for K >= 1 and a non-empty
\* working list its first word is the one the recommendation query returns.
C14_TopK ==
    last_call = "__get_recommendation" =>
        /\ Len(returned) =
              IF last_arg < Len(working_list) THEN last_arg ELSE Len(working_list)
        /\ \A i \in DOMAIN returned : \E j \in DOMAIN scored_words : returned[i] = scored_words[j]
        /\ \A i, j \in DOMAIN returned : i < j => returned[i].score >= returned[j].score
        /\ \A j \in DOMAIN scored_words :
              scored_words[j].word \notin Keys(returned) =>
                  \A i \in DOMAIN returned : scored_words[j].score <= returned[i].score
        /\ (last_arg >= 1 /\ working_list # << >>) =>
              returned[1].word = RecommendationOf(scored_words)

\* The sum of the letter counts of the distinct letters of the word: each
\* letter is added where it first occurs, from position i on.
RECURSIVE DistinctLetterSum(_, _, _)
DistinctLetterSum(counter, word, i) ==
    IF i > Len(word) THEN 0
    ELSE (IF \E j \in 1..(i - 1) : word[j] = word[i] THEN 0
          ELSE CounterGet(counter, word[i]))
         + DistinctLetterSum(counter, word, i + 1)

\* C15: after construction and after every enter_result that returned
\* normally, the score table holds, for the words of the working list and in
\* their order, the sum of the letter counts of the word's distinct letters
\* plus 2 times the word's frequency, the letter counts being those of the
\* working list as it is now.
C15_ScoreFormula ==
    JustScored =>
        /\ ScoredList(scored_words) = working_list
        /\ \A letter \in Letters :
              CounterGet(letter_count[A], letter) =
                  Cardinality(PlacesOf(working_list, letter))
        /\ \A i \in DOMAIN scored_words :
              scored_words[i].score =
                  DistinctLetterSum(letter_count[A], scored_words[i].word, 1)
                      + 2 * ZipfFrequency(scored_words[i].word)

\* C15 witness: an enter_result that returned normally removed a word, and
\* the score of a word left, one with a repeated letter, is lower than the
\* score it had in the table computed at construction.
C15_Witness ==
    /\ last_call = "enter_result"
    /\ raised = "none"
    /\ \E i \in DOMAIN scored_words :
          LET word == scored_words[i].word
          IN /\ \E j, k \in DOMAIN word : j # k /\ word[j] = word[k]
             /\ \E n \in DOMAIN ScoreWords(valid_words).scored_words :
                   /\ ScoreWords(valid_words).scored_words[n].word = word
                   /\ ScoreWords(valid_words).scored_words[n].score
                         > scored_words[i].score

\* The orders in which the five positions can be processed.
Orders ==
    {order \in [1..WordLength -> 0..(WordLength - 1)] :
        \A i, j \in 1..WordLength : i # j => order[i] # order[j]}

\* The passes of the filter loop made in the given order, from the n-th on.
RECURSIVE RefineInOrder(_, _, _, _, _)
RefineInOrder(wl, guess, result_key, order, n) ==
    IF n > WordLength THEN wl
    ELSE RefineInOrder(RefineStep(wl, guess, result_key, order[n]),
                       guess, result_key, order, n + 1)

\* C16: for a guess and a result key of length 5, the working list that
\* enter_result leaves is the one the five passes leave in any other order of
\* the positions (the orders that take the gray, green and yellow positions
\* as three passes included).
C16_OrderFree ==
    [][(/\ last_call' = "enter_result"
        /\ Len(last_arg') = WordLength
        /\ Len(current_guess[A]) >= WordLength)
       => \A order \in Orders :
             RefineInOrder(working_list, current_guess[A], last_arg', order, 1)
                 = working_list']_vars

\* C16 witness: a key with gray, yellow and green letters was entered for a
\* guess with a repeated letter, and it removed a word and kept another.
C16_Witness ==
    /\ last_call = "enter_result"
    /\ raised = "none"
    /\ last_arg \in WellFormedKeys
    /\ KeySymbols \subseteq Range(last_arg)
    /\ \E i, j \in 1..WordLength : i # j /\ current_guess[A][i] = current_guess[A][j]
    /\ Len(working_list) = 1
    /\ Len(valid_words) = 2

\* C17: enter_guess, with a word of any length, in the vocabulary or not, and
\* each query (recommendation, __get_recommendation, remaining_possible_words,
\* guess_number) leave the valid words, the working list, the letter count
\* and the scored words as they were: only enter_result changes them.
C17_OnlyResultFilters ==
    [][last_call' # "enter_result"
          => UNCHANGED <<valid_words, working_list, letter_count,
                         scored_words>>]_vars

\* A second guess, not of five letters, has been entered after the working
\* list was filtered down to some of the valid words.
C17_Witness ==
    /\ working_list # valid_words
    /\ working_list # << >>
    /\ last_call = "enter_guess"
    /\ Len(last_arg) # WordLength
    /\ guess_number[A] > 1

\* word passes result_key for guess at the position index, every symbol
\* other than '-' and 'y' standing for a letter in its place.
PassesAt(word, guess, result_key, index) ==
    IF At(result_key, index) = "-" THEN ~Contains(word, At(guess, index))
    ELSE IF At(result_key, index) = "y"
         THEN At(word, index) # At(guess, index) /\ Contains(word, At(guess, index))
         ELSE At(word, index) = At(guess, index)

\* The positions of result_key with a symbol that is none of '-', 'y', 'g'.
OtherSymbolAt(result_key) ==
    {index \in 0..(WordLength - 1) : At(result_key, index) \notin KeySymbols}

\* C19: for a guess of length 5 and a result key of length 5 with a symbol
\* other than '-', 'y' and 'g' at some position, enter_result raises nothing
\* and keeps exactly the words that pass every position, where the words
\* that pass the position of such a symbol are those with the guess's
\* letter at that position.
C19_OtherSymbolIsGreen ==
    [][(/\ last_call' = "enter_result"
        /\ Len(last_arg') = WordLength
        /\ Len(current_guess[A]) = WordLength
        /\ OtherSymbolAt(last_arg') # {})
       => /\ raised' = "none"
          /\ \A index \in OtherSymbolAt(last_arg') :
                \A word \in Range(working_list') :
                    At(word, index) = At(current_guess[A], index)
          /\ working_list' =
                SelectSeq(working_list,
                          LAMBDA word :
                              \A index \in 0..(WordLength - 1) :
                                  PassesAt(word, current_guess[A], last_arg',
                                           index))]_vars

\* The first result key had such a symbol, and a word of the vocabulary that
\* passes every other position was removed for its letter at the position of
\* that symbol, while another word was kept.
C19_Witness ==
    /\ last_call = "enter_result"
    /\ raised = "none"
    /\ guess_number[A] = 1
    /\ Len(last_arg) = WordLength
    /\ Len(current_guess[A]) = WordLength
    /\ working_list # << >>
    /\ \E index \in OtherSymbolAt(last_arg) :
          \E word \in Range(valid_words) :
              /\ word \notin Range(working_list)
              /\ \A other \in (0..(WordLength - 1)) \ {index} :
                    PassesAt(word, current_guess[A], last_arg, other)

\* A step of a game of rounds: at most 6 guesses and 6 result keys are
\* entered; every enter_result follows its own enter_guess; no guess is
\* entered once guess_number is 6 or the last result key typed is 'ggggg'.
GameOfRounds ==
    /\ guess_number'[A] <= MaxGuesses
    /\ results_entered' <= MaxGuesses
    /\ results_entered' \in {guess_number'[A] - 1, guess_number'[A]}
    /\ (pc' \in {"loop", "print", "done"}) => (results_entered' = guess_number'[A])
    /\ (results_entered' # results_entered)
          => (/\ results_entered' = results_entered + 1
              /\ results_entered' = guess_number[A])
    /\ (guess_number[A] >= MaxGuesses \/ game_result_key = AllGreen)
          => (guess_number'[A] = guess_number[A])

\* C18: the game ends, after at most 6 rounds: the program reaches its end
\* or stops on an exception; it never enters more than 6 guesses; every
\* enter_result follows its own enter_guess, so that enter_result is called
\* at most 6 times; and no guess is entered once guess_number is 6 or the
\* last result key typed is 'ggggg'.
C18_GameEnds ==
    /\ [][GameOfRounds]_vars
    /\ <>(pc \in {"done", "crashed"})

\* A game of six rounds has ended without the key 'ggggg'.
C18_Witness ==
    /\ pc = "done"
    /\ guess_number[A] = MaxGuesses
    /\ results_entered = MaxGuesses
    /\ game_result_key # AllGreen

\* word and other have the same length and the same letters, each as many
\* times in the one as in the other.
SameLetters(word, other) ==
    /\ Len(word) = Len(other)
    /\ \A letter \in Range(word) \cup Range(other) :
          Cardinality({i \in 1..Len(word) : word[i] = letter})
              = Cardinality({i \in 1..Len(other) : other[i] = letter})

====
